---- MODULE Spec2Model ----
(***************************************************************************)
(* Model of case-short.py: a parametric two-part enclosure (base + shell)  *)
(* built by constructive solid geometry and exported to four mesh files.   *)
(*                                                                         *)
(* Lengths are integers in micrometres (1 mm = 1000), so every parameter   *)
(* of the script and every half of one is exact.  A solid is the ordered   *)
(* list of the boolean operations that built it; point membership is       *)
(* evaluated over that list the way the CAD kernel combines the operands.  *)
(* A primitive created inside a Locations context sits at that location;  *)
(* nested Locations contexts compose by translation.                       *)
(***************************************************************************)
EXTENDS Integers, Sequences, FiniteSets

(***************************************************************************)
(* 1. PARAMETERS (case-short.py lines 31-86)                               *)
(***************************************************************************)
pcb_len == 28500
pcb_wid == 11000
pcb_thick == 1600

usb_len_metal == 7000
usb_w == 9000
usb_h == 3600
term_block_len == 8500
term_block_h == 10500

wall_thick == 1600
floor_thick == 4000
fit_tol == 200
standoff_h == 2500
recess_h == 3800
usb_anvil_h == 2000
usb_cut_w == 12000

\* internal_h = 16.0 in the script as shipped
internal_h_default == 16000

slot_w == 7000
slot_h == 1300
wire_h_from_pcb == 5500

wire_center_h == standoff_h + wire_h_from_pcb
clamp_anvil_h == wire_center_h - (slot_h \div 2)
clamp_arch_top == wire_center_h + (slot_h \div 2)

screw_post_dia == 6000
screw_pilot_dia == 2500
screw_clear_dia == 3200
head_dia == 6000
cb_depth == 2000

pcb_xy_tol == 150

cavity_l == pcb_len + 2000
cavity_w == pcb_wid + (2 * screw_post_dia) + pcb_xy_tol

outer_l == cavity_l + 2 * wall_thick
outer_w == cavity_w + 2 * wall_thick

post_offset_x == (cavity_l \div 2) - (screw_post_dia \div 2)
post_offset_y == (cavity_w \div 2) - (screw_post_dia \div 2)
post_r == screw_post_dia \div 2

\* locals of the two builders
lip_height == 2500
recess_wall_t == 1200
soff_size == 1000
soff_offset_y == (pcb_wid \div 2) - (soff_size \div 2)
soff_back_x == (pcb_len \div 2) - (soff_size \div 2)
soff_front_x == (0 - (pcb_len \div 2)) + (soff_size \div 2) + 1200
cut_depth == (outer_l \div 2) - (pcb_len \div 2)

(***************************************************************************)
(* The internal height is the parameter the one conditional of the script  *)
(* depends on.  The model runs the script for the shipped value and for    *)
(* edited values that put each hold-down clearance at exactly zero and     *)
(* below zero.                                                             *)
(***************************************************************************)
InternalHeights ==
    { internal_h_default,
      standoff_h + pcb_thick + term_block_h,
      standoff_h + pcb_thick + usb_h,
      standoff_h + pcb_thick + usb_h - 1700 }

\* number of times the script is run in a row on the same working directory
MaxRuns == 2

VARIABLES
    pc,            \* position in the script
    run,           \* which invocation this is (1 .. MaxRuns)
    internal_h,    \* the internal_h parameter of this edit of the script
    viewer,        \* environment: whether ocp_vscode can be imported
    VISUALIZE,     \* the flag set by the import guard
    ghosts,        \* pcb, usb, term reference solids
    base,          \* base_part: list of boolean operations so far
    shell,         \* shell_part: list of boolean operations so far
    shown,         \* calls of the viewer's show(), each with its arguments
    console,       \* lines printed
    files,         \* working directory: file name -> content
    written,       \* files this run has written completely, in order
    prev           \* what the previous run left: console, files, flag

vars == <<pc, run, internal_h, viewer, VISUALIZE, ghosts, base, shell,
          shown, console, files, written, prev>>

(***************************************************************************)
(* Geometry: primitives, parts, point membership                           *)
(***************************************************************************)
Neg(v) == 0 - v

Abs(v) == IF v < 0 THEN 0 - v ELSE v

\* lower end of an extent of length len placed at c with the given Align
AlignLo(c, len, a) ==
    CASE a = "MIN" -> c
      [] a = "CENTER" -> c - (len \div 2)
      [] a = "MAX" -> c - len

\* Box(length, width, height, align=..., mode=...) at location loc
Box(mode, loc, dims, align) ==
    [ shape |-> "box", mode |-> mode,
      x1 |-> AlignLo(loc[1], dims[1], align[1]),
      x2 |-> AlignLo(loc[1], dims[1], align[1]) + dims[1],
      y1 |-> AlignLo(loc[2], dims[2], align[2]),
      y2 |-> AlignLo(loc[2], dims[2], align[2]) + dims[2],
      z1 |-> AlignLo(loc[3], dims[3], align[3]),
      z2 |-> AlignLo(loc[3], dims[3], align[3]) + dims[3],
      cx |-> 0, cy |-> 0, r |-> 0 ]

\* Cylinder(radius, height, align=(CENTER, CENTER, az), mode=...) at loc
Cylinder(mode, loc, radius, height, az) ==
    [ shape |-> "cyl", mode |-> mode,
      x1 |-> loc[1] - radius, x2 |-> loc[1] + radius,
      y1 |-> loc[2] - radius, y2 |-> loc[2] + radius,
      z1 |-> AlignLo(loc[3], height, az),
      z2 |-> AlignLo(loc[3], height, az) + height,
      cx |-> loc[1], cy |-> loc[2], r |-> radius ]

CCM == <<"CENTER", "CENTER", "MIN">>

\* a part built in its own builder, combined into the parent with `mode`
Part(name, mode, leaves) == [ name |-> name, mode |-> mode, leaves |-> leaves ]

\* a primitive created directly in a builder
Prim(name, leaf) == Part(name, leaf.mode, << [leaf EXCEPT !.mode = "add"] >>)

PointInLeaf(l, p) ==
    /\ l.z1 <= p[3] /\ p[3] <= l.z2
    /\ IF l.shape = "box"
       THEN /\ l.x1 <= p[1] /\ p[1] <= l.x2
            /\ l.y1 <= p[2] /\ p[2] <= l.y2
       ELSE (p[1] - l.cx) * (p[1] - l.cx) + (p[2] - l.cy) * (p[2] - l.cy)
                <= l.r * l.r

RECURSIVE PointInLeaves(_, _, _)
\* membership after the first n operations of a builder's list
PointInLeaves(leaves, n, p) ==
    IF n = 0 THEN FALSE
    ELSE IF leaves[n].mode = "add"
         THEN PointInLeaf(leaves[n], p) \/ PointInLeaves(leaves, n - 1, p)
         ELSE ~PointInLeaf(leaves[n], p) /\ PointInLeaves(leaves, n - 1, p)

PointInPart(part, p) == PointInLeaves(part.leaves, Len(part.leaves), p)

RECURSIVE PointInOps(_, _, _)
PointInOps(solid, n, p) ==
    IF n = 0 THEN FALSE
    ELSE IF solid[n].mode = "add"
         THEN PointInPart(solid[n], p) \/ PointInOps(solid, n - 1, p)
         ELSE ~PointInPart(solid[n], p) /\ PointInOps(solid, n - 1, p)

PointIn(solid, p) == PointInOps(solid, Len(solid), p)

\* solid.moved(Location((0, 0, dz))): a translated copy
MovedLeaf(l, dz) == [l EXCEPT !.z1 = @ + dz, !.z2 = @ + dz]

Moved(solid, dz) ==
    [ i \in 1..Len(solid) |->
        [ solid[i] EXCEPT !.leaves =
            [ j \in 1..Len(solid[i].leaves) |-> MovedLeaf(solid[i].leaves[j], dz) ] ] ]

\* the four corners in the order of the nested loops over x and y
Corners ==
    << <<Neg(post_offset_x), Neg(post_offset_y)>>,
       <<Neg(post_offset_x), post_offset_y>>,
       <<post_offset_x, Neg(post_offset_y)>>,
       <<post_offset_x, post_offset_y>> >>

Sign(v) == IF v > 0 THEN 1 ELSE -1

RECURSIVE Flatten(_)
Flatten(ss) == IF ss = <<>> THEN <<>> ELSE Head(ss) \o Flatten(Tail(ss))

(***************************************************************************)
(* 2. GHOST PARTS (lines 88-102)                                           *)
(***************************************************************************)
pcb_z_center == standoff_h + (pcb_thick \div 2)
usb_x == Neg(pcb_len \div 2) + (usb_len_metal \div 2)
usb_z == standoff_h + pcb_thick + (usb_h \div 2) - 500
term_x == (pcb_len \div 2) - (term_block_len \div 2)
term_z == standoff_h + pcb_thick + (term_block_h \div 2)

CCC == <<"CENTER", "CENTER", "CENTER">>

GhostParts ==
    << Prim("pcb", Box("add", <<0, 0, pcb_z_center>>,
                       <<pcb_len, pcb_wid, pcb_thick>>, CCC)),
       Prim("usb", Box("add", <<usb_x, 0, usb_z>>,
                       <<usb_len_metal, usb_w, usb_h>>, CCC)),
       Prim("term", Box("add", <<term_x, 0, term_z>>,
                        <<term_block_len, pcb_wid - 1000, term_block_h>>, CCC)) >>

(***************************************************************************)
(* 3. THE BASE (lines 108-196): the operations of each numbered step       *)
(***************************************************************************)
BasePlateOps ==
    << Prim("floor", Box("add", <<0, 0, 0>>,
                         <<outer_l, outer_w, floor_thick>>, CCM)) >>

\* a lip sized from the outer envelope instead of the cavity
LipOuterFromEnvelope == <<outer_l - fit_tol, outer_w - fit_tol, lip_height>>

LipOuter == <<cavity_l - fit_tol, cavity_w - fit_tol, lip_height>>

LipInner == <<cavity_l - fit_tol - 2400, cavity_w - fit_tol - 2400, lip_height>>

LipCornerCut(c) ==
    LET cut_size == post_r + fit_tol
        sx == Sign(c[1])
        sy == Sign(c[2])
    IN << Prim("lip_corner_cyl",
               Cylinder("sub", <<c[1], c[2], floor_thick>>,
                        post_r + fit_tol, lip_height, "MIN")),
          Prim("lip_corner_box",
               Box("sub", <<c[1] + sx * (cut_size \div 2),
                            c[2] + sy * (cut_size \div 2), floor_thick>>,
                   <<cut_size, cut_size, lip_height>>, CCM)) >>

AlignmentLipOps ==
    << Part("lip", "add",
            << Box("add", <<0, 0, floor_thick>>, LipOuter, CCM),
               Box("sub", <<0, 0, floor_thick>>, LipInner, CCM) >>) >>
    \o Flatten([i \in 1..4 |-> LipCornerCut(Corners[i])])
    \o << Prim("clamp_slot",
               Box("sub", <<cavity_l \div 2, 0, floor_thick>>,
                   <<wall_thick * 4, slot_w, lip_height * 2>>, CCM)) >>

RecessOuter ==
    <<pcb_len + pcb_xy_tol + 2 * recess_wall_t,
      pcb_wid + pcb_xy_tol + 2 * recess_wall_t, recess_h>>

RecessInner == <<pcb_len + pcb_xy_tol, pcb_wid + pcb_xy_tol, recess_h>>

PcbRetentionRecessOps ==
    << Part("recess", "add",
            << Box("add", <<0, 0, floor_thick>>, RecessOuter, CCM),
               Box("sub", <<0, 0, floor_thick>>, RecessInner, CCM) >>
            \o [i \in 1..4 |->
                  Cylinder("sub", <<Corners[i][1], Corners[i][2], floor_thick>>,
                           post_r + fit_tol, recess_h, "MIN")]) >>

Standoff(x, y) ==
    Prim("standoff", Box("add", <<x, y, floor_thick>>,
                         <<soff_size, soff_size, standoff_h>>, CCM))

PcbStandoffsOps ==
    << Standoff(soff_back_x, Neg(soff_offset_y)),
       Standoff(soff_back_x, soff_offset_y),
       Standoff(soff_front_x, Neg(soff_offset_y)),
       Standoff(soff_front_x, soff_offset_y) >>

\* centres of the base's screw holes: the Locations list of step 5
ScrewHoleCentres == Corners

ScrewHolesOps ==
    [i \in 1..4 |->
        Prim("clear_hole",
             Cylinder("sub", <<ScrewHoleCentres[i][1], ScrewHoleCentres[i][2], 0>>,
                      screw_clear_dia \div 2, floor_thick * 3, "CENTER"))]
    \o
    [i \in 1..4 |->
        Prim("counterbore",
             Cylinder("sub", <<ScrewHoleCentres[i][1], ScrewHoleCentres[i][2], 0>>,
                      head_dia \div 2, cb_depth, "MIN"))]

\* an anvil centred on the outer face instead of inside the wall
WireClampAnvilOnFace ==
    << Prim("clamp_anvil",
            Box("add", <<outer_l \div 2, 0, floor_thick>>,
                <<wall_thick, slot_w, clamp_anvil_h>>, CCM)) >>

WireClampAnvilOps ==
    << Prim("clamp_anvil",
            Box("add", <<(outer_l \div 2) - (wall_thick \div 2), 0, floor_thick>>,
                <<wall_thick, slot_w, clamp_anvil_h>>, CCM)) >>

UsbAnvilOps ==
    << Prim("usb_anvil",
            Box("add", <<Neg(outer_l \div 2) + (wall_thick \div 2), 0, floor_thick>>,
                <<wall_thick, usb_cut_w - fit_tol, usb_anvil_h>>, CCM)) >>

UsbOpeningOps ==
    << Prim("usb_opening",
            Box("sub", <<Neg(outer_l \div 2), 0, floor_thick + usb_anvil_h>>,
                <<cut_depth, usb_cut_w, lip_height * 3>>,
                <<"MIN", "CENTER", "MIN">>)) >>

(***************************************************************************)
(* 4. THE SHELL (lines 203-246); h is internal_h                           *)
(***************************************************************************)
shell_ext_h(h) == h + wall_thick

MainBlockOps(h) ==
    << Prim("block", Box("add", <<0, 0, 0>>,
                         <<outer_l, outer_w, shell_ext_h(h)>>, CCM)) >>

HollowCavityOps(h) ==
    << Prim("cavity", Box("sub", <<0, 0, 0>>, <<cavity_l, cavity_w, h>>, CCM)) >>

\* post centres measured from the outer walls instead of the cavity
ScrewPostCentresFromOuter ==
    [i \in 1..4 |-> <<Sign(Corners[i][1]) * ((outer_l \div 2) - post_r),
                      Sign(Corners[i][2]) * ((outer_w \div 2) - post_r)>>]

\* centres of the shell's screw posts: the nested loops of step 3
ScrewPostCentres == Corners

ScrewPost(c, h) ==
    LET sx == Sign(c[1])
        sy == Sign(c[2])
    IN << Prim("post", Cylinder("add", <<c[1], c[2], 0>>, post_r, h, "MIN")),
          Prim("post_fill",
               Box("add", <<c[1] + sx * (post_r \div 2),
                            c[2] + sy * (post_r \div 2), 0>>,
                   <<post_r, post_r, h>>, CCM)),
          Prim("pilot", Cylinder("sub", <<c[1], c[2], 0>>,
                                 screw_pilot_dia \div 2, h, "MIN")) >>

ScrewPostsOps(h) == Flatten([i \in 1..4 |-> ScrewPost(ScrewPostCentres[i], h)])

usb_hold_h(h) == h - (standoff_h + pcb_thick + usb_h)

term_hold_h(h) == h - (standoff_h + pcb_thick + term_block_h)

\* a height check that lets a zero clearance through
HoldDownBuiltNonNegative(hold_h) == hold_h >= 0

\* the height check guarding each hold-down (lines 229 and 235)
HoldDownBuilt(hold_h) == hold_h > 0

CCX == <<"CENTER", "CENTER", "MAX">>

HoldDownsOps(h) ==
    (IF HoldDownBuilt(usb_hold_h(h))
     THEN << Prim("usb_hold",
                  Box("add", <<Neg(pcb_len \div 2) + (usb_len_metal \div 2), 0, h>>,
                      <<usb_len_metal, usb_w, usb_hold_h(h)>>, CCX)) >>
     ELSE <<>>)
    \o
    (IF HoldDownBuilt(term_hold_h(h))
     THEN << Prim("term_hold",
                  Box("add", <<(pcb_len \div 2) - (term_block_len \div 2), 0, h>>,
                      <<term_block_len, term_block_len, term_hold_h(h)>>, CCX)) >>
     ELSE <<>>)

usb_cut_top == usb_z + ((usb_h + 3000) \div 2)

UsbCutoutOps ==
    << Prim("usb_cutout",
            Box("sub", <<Neg(outer_l \div 2), 0, 0>>,
                <<wall_thick * 4, usb_cut_w, usb_cut_top>>, CCM)) >>

WireClampArchOps ==
    << Prim("clamp_arch",
            Box("sub", <<outer_l \div 2, 0, 0>>,
                <<wall_thick * 4, slot_w, clamp_arch_top>>, CCM)) >>

(***************************************************************************)
(* 5-6. VISUALIZATION AND EXPORT (lines 252-281)                           *)
(***************************************************************************)
FileNames == {"decoy_base.stl", "decoy_shell.stl", "decoy_base.glb", "decoy_shell.glb"}

Absent == [format |-> "absent", mesh |-> <<>>]

Stale == [format |-> "stale", mesh |-> <<>>]

Partial == [format |-> "partial", mesh |-> <<>>]

Complete(f) == f.format \in {"stl", "glb"}

\* what export_stl / export_gltf serialise: the solid handed to them
ExportedMesh(fmt, solid) == [format |-> fmt, mesh |-> solid]

\* a file opened for appending keeps what an earlier run wrote
WriteFileAppend(fs, name, content) ==
    [fs EXCEPT ![name] = IF Complete(@)
                         THEN [format |-> content.format, mesh |-> @.mesh \o content.mesh]
                         ELSE content]

\* a file opened for writing replaces what was there
WriteFile(fs, name, content) == [fs EXCEPT ![name] = content]

\* shell_part.part.move(...) relocates the builder's part itself
ShellMovedInPlace(s) == Moved(s, floor_thick + 30000)

\* shell_part.part.moved(...) returns a copy; the builder's part is untouched
ShellAfterMoved(s) == s

\* the arguments of show(): base, the three moved ghosts, the moved shell
ShowArgs ==
    [ base_part |-> base,
      ghosts |-> Moved(ghosts, floor_thick),
      vis_shell |-> Moved(shell, floor_thick + 30000) ]

(***************************************************************************)
(* The script as a sequence of steps                                       *)
(***************************************************************************)
Init ==
    /\ pc = "import_cad"
    /\ run = 1
    /\ internal_h \in InternalHeights
    /\ viewer \in BOOLEAN
    /\ VISUALIZE = FALSE
    /\ ghosts = <<>>
    /\ base = <<>>
    /\ shell = <<>>
    /\ shown = <<>>
    /\ console = <<>>
    /\ files \in { [n \in FileNames |-> Absent], [n \in FileNames |-> Stale] }
    /\ written = <<>>
    /\ prev = [console |-> <<>>, files |-> [n \in FileNames |-> Absent], vis |-> FALSE]

\* line 17: from build123d import *
ImportCad ==
    /\ pc = "import_cad"
    /\ pc' = "import_viewer"
    /\ UNCHANGED <<run, internal_h, viewer, VISUALIZE, ghosts, base, shell,
                   shown, console, files, written, prev>>

\* lines 19-25: the import guard
ImportViewer ==
    /\ pc = "import_viewer"
    /\ IF viewer
       THEN /\ VISUALIZE' = TRUE
            /\ console' = console
       ELSE /\ VISUALIZE' = FALSE
            /\ console' = Append(console, "ocp_vscode not found, skipping visualization.")
    /\ pc' = "ghosts"
    /\ UNCHANGED <<run, internal_h, viewer, ghosts, base, shell, shown,
                   files, written, prev>>

CreateGhostParts ==
    /\ pc = "ghosts"
    /\ ghosts' = GhostParts
    /\ pc' = "base_plate"
    /\ UNCHANGED <<run, internal_h, viewer, VISUALIZE, base, shell, shown,
                   console, files, written, prev>>

BaseStep(at, ops, next) ==
    /\ pc = at
    /\ base' = base \o ops
    /\ pc' = next
    /\ UNCHANGED <<run, internal_h, viewer, VISUALIZE, ghosts, shell, shown,
                   console, files, written, prev>>

BasePlate == BaseStep("base_plate", BasePlateOps, "alignment_lip")

AlignmentLip == BaseStep("alignment_lip", AlignmentLipOps, "recess")

PcbRetentionRecess == BaseStep("recess", PcbRetentionRecessOps, "standoffs")

PcbStandoffs == BaseStep("standoffs", PcbStandoffsOps, "screw_holes")

ScrewHoles == BaseStep("screw_holes", ScrewHolesOps, "clamp_anvil")

WireClampAnvil == BaseStep("clamp_anvil", WireClampAnvilOps, "usb_anvil")

UsbAnvil == BaseStep("usb_anvil", UsbAnvilOps, "usb_opening")

UsbOpening == BaseStep("usb_opening", UsbOpeningOps, "main_block")

ShellStep(at, ops, next) ==
    /\ pc = at
    /\ shell' = shell \o ops
    /\ pc' = next
    /\ UNCHANGED <<run, internal_h, viewer, VISUALIZE, ghosts, base, shown,
                   console, files, written, prev>>

MainBlock == ShellStep("main_block", MainBlockOps(internal_h), "cavity")

HollowCavity == ShellStep("cavity", HollowCavityOps(internal_h), "screw_posts")

ScrewPosts == ShellStep("screw_posts", ScrewPostsOps(internal_h), "hold_downs")

HoldDowns == ShellStep("hold_downs", HoldDownsOps(internal_h), "usb_cutout")

UsbCutout == ShellStep("usb_cutout", UsbCutoutOps, "clamp_arch")

WireClampArch == ShellStep("clamp_arch", WireClampArchOps, "visualize")

\* a preview that does not look at the flag
VisualizationUnguarded ==
    /\ pc = "visualize"
    /\ shown' = Append(shown, ShowArgs)
    /\ shell' = ShellAfterMoved(shell)
    /\ pc' = "print_exporting"
    /\ UNCHANGED <<run, internal_h, viewer, VISUALIZE, ghosts, base,
                   console, files, written, prev>>

\* lines 252-269
Visualization ==
    /\ pc = "visualize"
    /\ IF VISUALIZE
       THEN /\ shown' = Append(shown, ShowArgs)
            /\ shell' = ShellAfterMoved(shell)
       ELSE UNCHANGED <<shown, shell>>
    /\ pc' = "print_exporting"
    /\ UNCHANGED <<run, internal_h, viewer, VISUALIZE, ghosts, base,
                   console, files, written, prev>>

PrintStep(at, line, next) ==
    /\ pc = at
    /\ console' = Append(console, line)
    /\ pc' = next
    /\ UNCHANGED <<run, internal_h, viewer, VISUALIZE, ghosts, base, shell,
                   shown, files, written, prev>>

PrintExporting == PrintStep("print_exporting", "Exporting files...", "stl_base")

ExportStep(at, name, content, next) ==
    /\ pc = at
    /\ files' = WriteFile(files, name, content)
    /\ written' = Append(written, name)
    /\ pc' = next
    /\ UNCHANGED <<run, internal_h, viewer, VISUALIZE, ghosts, base, shell,
                   shown, console, prev>>

ExportStlBase ==
    ExportStep("stl_base", "decoy_base.stl", ExportedMesh("stl", base), "stl_shell")

ExportStlShell ==
    ExportStep("stl_shell", "decoy_shell.stl", ExportedMesh("stl", shell), "glb_base")

ExportGltfBase ==
    ExportStep("glb_base", "decoy_base.glb", ExportedMesh("glb", base), "glb_shell")

ExportGltfShell ==
    ExportStep("glb_shell", "decoy_shell.glb", ExportedMesh("glb", shell), "print_done")

PrintDone == PrintStep("print_done", "Done.", "done")

\* the file an export step is writing
ExportTarget ==
    [ stl_base |-> "decoy_base.stl", stl_shell |-> "decoy_shell.stl",
      glb_base |-> "decoy_base.glb", glb_shell |-> "decoy_shell.glb" ]

\* steps that call into the CAD library, the viewer or the file system
LibrarySteps ==
    { "import_cad", "ghosts", "base_plate", "alignment_lip", "recess",
      "standoffs", "screw_holes", "clamp_anvil", "usb_anvil", "usb_opening",
      "main_block", "cavity", "screw_posts", "hold_downs", "usb_cutout",
      "clamp_arch" }

ExportSteps == { "stl_base", "stl_shell", "glb_base", "glb_shell" }

\* an exception in a builder step or an import: nothing catches it
RaiseInLibrary ==
    /\ pc \in LibrarySteps
    /\ pc' = "aborted"
    /\ UNCHANGED <<run, internal_h, viewer, VISUALIZE, ghosts, base, shell,
                   shown, console, files, written, prev>>

\* an exception in show(): nothing catches it
RaiseInViewer ==
    /\ pc = "visualize"
    /\ VISUALIZE
    /\ pc' = "aborted"
    /\ UNCHANGED <<run, internal_h, viewer, VISUALIZE, ghosts, base, shell,
                   shown, console, files, written, prev>>

\* a failing export that removes the files written so far
RaiseInExportWithCleanup ==
    /\ pc \in ExportSteps
    /\ files' = [n \in FileNames |-> Absent]
    /\ pc' = "aborted"
    /\ UNCHANGED <<run, internal_h, viewer, VISUALIZE, ghosts, base, shell,
                   shown, console, written, prev>>

\* an exception in an export call: the file being written may be left
\* untouched or truncated; nothing catches it and nothing cleans up
RaiseInExport ==
    /\ pc \in ExportSteps
    /\ \/ files' = files
       \/ files' = [files EXCEPT ![ExportTarget[pc]] = Partial]
    /\ pc' = "aborted"
    /\ UNCHANGED <<run, internal_h, viewer, VISUALIZE, ghosts, base, shell,
                   shown, console, written, prev>>

\* the script is run again in the same working directory, parameters unchanged
Rerun ==
    /\ pc = "done"
    /\ run < MaxRuns
    /\ run' = run + 1
    /\ prev' = [console |-> console, files |-> files, vis |-> VISUALIZE]
    /\ viewer' \in BOOLEAN
    /\ pc' = "import_cad"
    /\ VISUALIZE' = FALSE
    /\ ghosts' = <<>>
    /\ base' = <<>>
    /\ shell' = <<>>
    /\ shown' = <<>>
    /\ console' = <<>>
    /\ written' = <<>>
    /\ UNCHANGED <<internal_h, files>>

Next ==
    \/ ImportCad
    \/ ImportViewer
    \/ CreateGhostParts
    \/ BasePlate
    \/ AlignmentLip
    \/ PcbRetentionRecess
    \/ PcbStandoffs
    \/ ScrewHoles
    \/ WireClampAnvil
    \/ UsbAnvil
    \/ UsbOpening
    \/ MainBlock
    \/ HollowCavity
    \/ ScrewPosts
    \/ HoldDowns
    \/ UsbCutout
    \/ WireClampArch
    \/ Visualization
    \/ PrintExporting
    \/ ExportStlBase
    \/ ExportStlShell
    \/ ExportGltfBase
    \/ ExportGltfShell
    \/ PrintDone
    \/ RaiseInLibrary
    \/ RaiseInViewer
    \/ RaiseInExport
    \/ Rerun

Spec == Init /\ [][Next]_vars

(***************************************************************************)
(* Reading the built solids                                                *)
(***************************************************************************)
StepOrder ==
    << "import_cad", "import_viewer", "ghosts", "base_plate", "alignment_lip",
       "recess", "standoffs", "screw_holes", "clamp_anvil", "usb_anvil",
       "usb_opening", "main_block", "cavity", "screw_posts", "hold_downs",
       "usb_cutout", "clamp_arch", "visualize", "print_exporting", "stl_base",
       "stl_shell", "glb_base", "glb_shell", "print_done", "done" >>

StepIndex(s) == CHOOSE i \in 1..Len(StepOrder) : StepOrder[i] = s

\* the running script has completed step s
Past(s) == pc # "aborted" /\ StepIndex(pc) > StepIndex(s)

OpsNamed(solid, name) == SelectSeq(solid, LAMBDA o : o.name = name)

HasOp(solid, name) == \E i \in 1..Len(solid) : solid[i].name = name

OpNamed(solid, name) == OpsNamed(solid, name)[1]

\* the single primitive of an operation created directly in a builder
LeafOf(op) == op.leaves[1]

SeqRange(q) == { q[i] : i \in 1..Len(q) }

Centres(solid, name) == { <<LeafOf(o).cx, LeafOf(o).cy>> : o \in SeqRange(OpsNamed(solid, name)) }

LenX(l) == l.x2 - l.x1

LenY(l) == l.y2 - l.y1

SetMax(S) == CHOOSE v \in S : \A w \in S : w <= v

SetMin(S) == CHOOSE v \in S : \A w \in S : v <= w

\* the primitives that add material to a solid
AdditiveLeaves(solid) ==
    UNION { { solid[i].leaves[j] :
                j \in { k \in 1..Len(solid[i].leaves) : solid[i].leaves[k].mode = "add" } } :
            i \in { k \in 1..Len(solid) : solid[k].mode = "add" } }

\* the box that holds every additive primitive
Hull(solid) ==
    LET A == AdditiveLeaves(solid)
    IN [ x1 |-> SetMin({l.x1 : l \in A}), x2 |-> SetMax({l.x2 : l \in A}),
         y1 |-> SetMin({l.y1 : l \in A}), y2 |-> SetMax({l.y2 : l \in A}),
         z1 |-> SetMin({l.z1 : l \in A}), z2 |-> SetMax({l.z2 : l \in A}) ]

\* probe points sit this far inside a primitive's faces
ProbeInset == fit_tol \div 2

Probes(l) ==
    { <<x, y, z>> :
        x \in {l.x1 + ProbeInset, (l.x1 + l.x2) \div 2, l.x2 - ProbeInset},
        y \in {l.y1 + ProbeInset, (l.y1 + l.y2) \div 2, l.y2 - ProbeInset},
        z \in {l.z1 + ProbeInset, (l.z1 + l.z2) \div 2, l.z2 - ProbeInset} }

\* probe points of the additive primitives that the finished solid contains
Occupied(solid) ==
    { p \in UNION { Probes(l) : l \in AdditiveLeaves(solid) } : PointIn(solid, p) }

\* material of the solid reaches each of the six faces of box b
Reaches(solid, b) ==
    LET O == Occupied(solid)
    IN /\ \E p \in O : p[1] <= b.x1 + ProbeInset
       /\ \E p \in O : p[1] >= b.x2 - ProbeInset
       /\ \E p \in O : p[2] <= b.y1 + ProbeInset
       /\ \E p \in O : p[2] >= b.y2 - ProbeInset
       /\ \E p \in O : p[3] <= b.z1 + ProbeInset
       /\ \E p \in O : p[3] >= b.z2 - ProbeInset

Envelope(height) ==
    [ x1 |-> Neg(outer_l \div 2), x2 |-> outer_l \div 2,
      y1 |-> Neg(outer_w \div 2), y2 |-> outer_w \div 2,
      z1 |-> 0, z2 |-> height ]

NoticeLine == "ocp_vscode not found, skipping visualization."

ExportOrder == <<"decoy_base.stl", "decoy_shell.stl", "decoy_base.glb", "decoy_shell.glb">>

Printed(line) == \E i \in 1..Len(console) : console[i] = line

IsPrefix(a, b) == Len(a) <= Len(b) /\ \A i \in 1..Len(a) : a[i] = b[i]

(***************************************************************************)
(* C1                                                                      *)
(***************************************************************************)
\* C1: once the hold-down step of the shell builder has run, the
\* connector-side hold-down block is in the shell exactly when
\* internal_h - (standoff_h + pcb_thick + usb_h) > 0 and the terminal-side
\* block exactly when internal_h - (standoff_h + pcb_thick + term_block_h) > 0;
\* with the shipped internal_h the connector clearance is 8.3 mm and the
\* connector-side block is built.
C1_HoldDownIffClearancePositive ==
    Past("hold_downs") =>
        /\ HasOp(shell, "usb_hold")
              <=> (internal_h - (standoff_h + pcb_thick + usb_h) > 0)
        /\ HasOp(shell, "term_hold")
              <=> (internal_h - (standoff_h + pcb_thick + term_block_h) > 0)
        /\ internal_h = internal_h_default =>
              /\ internal_h - standoff_h - pcb_thick - usb_h = 8300
              /\ HasOp(shell, "usb_hold")
              /\ LeafOf(OpNamed(shell, "usb_hold")).z2
                    - LeafOf(OpNamed(shell, "usb_hold")).z1 = 8300

\* the terminal clearance is exactly zero: connector block built, terminal block not
C1_Witness ==
    /\ Past("hold_downs")
    /\ internal_h - (standoff_h + pcb_thick + term_block_h) = 0
    /\ HasOp(shell, "usb_hold")
    /\ ~HasOp(shell, "term_hold")

(***************************************************************************)
(* C2                                                                      *)
(***************************************************************************)
LipOuterLeaf == OpNamed(base, "lip").leaves[1]

LipInnerLeaf == OpNamed(base, "lip").leaves[2]

CavityLeaf == LeafOf(OpNamed(shell, "cavity"))

\* C2 as stated: the shell's cavity footprint equals the footprint of the
\* inner cutout of the base's lip to within fit_tol in length and in width.
C2_CavityMatchesRimInner ==
    (HasOp(base, "lip") /\ HasOp(shell, "cavity")) =>
        /\ Abs(LenX(CavityLeaf) - LenX(LipInnerLeaf)) <= fit_tol
        /\ Abs(LenY(CavityLeaf) - LenY(LipInnerLeaf)) <= fit_tol

\* C2 amended: the shell's cavity footprint (cavity_l x cavity_w) equals the
\* OUTER footprint of the base's alignment rim to within fit_tol: the rim is
\* smaller than the cavity, by no more than fit_tol, in length and in width,
\* and is centred on the same axis.
C2_CavityMatchesRimOuter ==
    (HasOp(base, "lip") /\ HasOp(shell, "cavity")) =>
        /\ LenX(CavityLeaf) = cavity_l
        /\ LenY(CavityLeaf) = cavity_w
        /\ LenX(CavityLeaf) - LenX(LipOuterLeaf) \in 0..fit_tol
        /\ LenY(CavityLeaf) - LenY(LipOuterLeaf) \in 0..fit_tol
        /\ CavityLeaf.x1 + CavityLeaf.x2 = LipOuterLeaf.x1 + LipOuterLeaf.x2
        /\ CavityLeaf.y1 + CavityLeaf.y2 = LipOuterLeaf.y1 + LipOuterLeaf.y2

\* both the rim and the cavity exist, and the rim's inner cutout is far smaller
C2_Witness ==
    /\ HasOp(base, "lip")
    /\ HasOp(shell, "cavity")
    /\ LenX(CavityLeaf) - LenX(LipOuterLeaf) = fit_tol
    /\ LenX(CavityLeaf) - LenX(LipInnerLeaf) > fit_tol

(***************************************************************************)
(* C3                                                                      *)
(***************************************************************************)
CornerSet ==
    { <<sx * post_offset_x, sy * post_offset_y>> : sx \in {-1, 1}, sy \in {-1, 1} }

\* C3: once the base's screw holes and the shell's posts are built, the
\* axes of the four posts, of the four pilot holes, of the four clearance
\* holes and of the four counterbores are the same four X/Y positions, one
\* for each sign combination of (+/-post_offset_x, +/-post_offset_y).
C3_PostsConcentricWithHoles ==
    (HasOp(base, "counterbore") /\ HasOp(shell, "pilot")) =>
        /\ Centres(shell, "post") = CornerSet
        /\ Centres(shell, "pilot") = Centres(shell, "post")
        /\ Centres(base, "clear_hole") = Centres(shell, "post")
        /\ Centres(base, "counterbore") = Centres(shell, "post")
        /\ Cardinality(Centres(shell, "post")) = 4
        /\ Len(OpsNamed(shell, "post")) = 4
        /\ Len(OpsNamed(base, "clear_hole")) = 4

C3_Witness ==
    /\ Len(OpsNamed(base, "counterbore")) = 4
    /\ Len(OpsNamed(shell, "pilot")) = 4
    /\ <<post_offset_x, Neg(post_offset_y)>> \in Centres(shell, "pilot")
    /\ <<post_offset_x, Neg(post_offset_y)>> \in Centres(base, "counterbore")

(***************************************************************************)
(* C4                                                                      *)
(***************************************************************************)
\* C4 as stated: the finished base is bounded by outer_l x outer_w x
\* floor_thick and the finished shell by outer_l x outer_w x shell_ext_h; no
\* additive step reaches beyond that envelope.
C4_BoundingBoxesAsStated ==
    /\ Past("usb_opening") => Hull(base) = Envelope(floor_thick)
    /\ Past("clamp_arch") => Hull(shell) = Envelope(shell_ext_h(internal_h))

\* C4 amended: the finished shell is bounded by outer_l x outer_w x
\* shell_ext_h.  The finished base is bounded by outer_l x outer_w in X/Y,
\* but its height is floor_thick + clamp_anvil_h (the wire-clamp anvil is the
\* tallest feature standing on the floor), not floor_thick.  No additive
\* step reaches beyond these envelopes and material reaches each face.
C4_BoundingBoxes ==
    /\ Past("usb_opening") =>
          /\ Hull(base) = Envelope(floor_thick + clamp_anvil_h)
          /\ Reaches(base, Envelope(floor_thick + clamp_anvil_h))
    /\ Past("clamp_arch") =>
          /\ Hull(shell) = Envelope(internal_h + wall_thick)
          /\ Reaches(shell, Envelope(internal_h + wall_thick))

\* both solids are finished; the base stands 11.35 mm tall
C4_Witness ==
    /\ Past("clamp_arch")
    /\ internal_h = internal_h_default
    /\ Hull(base).z2 = 11350
    /\ Hull(shell).z2 = 17600

(***************************************************************************)
(* C5                                                                      *)
(***************************************************************************)
\* extent [lo, hi] of a cut covers extent [tlo, thi] of what it cuts through
Covers(lo, hi, tlo, thi) == lo <= tlo /\ thi <= hi

FloorLeaf == LeafOf(OpNamed(base, "floor"))

RecessOuterLeaf == OpNamed(base, "recess").leaves[1]

RecessInnerLeaf == OpNamed(base, "recess").leaves[2]

BlockLeaf == LeafOf(OpNamed(shell, "block"))

UsbOpeningLeaf == LeafOf(OpNamed(base, "usb_opening"))

\* the cuts of the base other than the front archway's pass through the rim
BaseCutsPenetrate ==
    /\ Covers(LipInnerLeaf.z1, LipInnerLeaf.z2, LipOuterLeaf.z1, LipOuterLeaf.z2)
    /\ \A o \in SeqRange(OpsNamed(base, "lip_corner_cyl")) \cup
                SeqRange(OpsNamed(base, "lip_corner_box")) :
          Covers(LeafOf(o).z1, LeafOf(o).z2, LipOuterLeaf.z1, LipOuterLeaf.z2)
    /\ LET slot == LeafOf(OpNamed(base, "clamp_slot"))
       IN /\ Covers(slot.x1, slot.x2, LipInnerLeaf.x2, LipOuterLeaf.x2)
          /\ Covers(slot.z1, slot.z2, LipOuterLeaf.z1, LipOuterLeaf.z2)
    /\ \A j \in 3..Len(OpNamed(base, "recess").leaves) :
          Covers(OpNamed(base, "recess").leaves[j].z1,
                 OpNamed(base, "recess").leaves[j].z2,
                 RecessOuterLeaf.z1, RecessOuterLeaf.z2)
    /\ Covers(RecessInnerLeaf.z1, RecessInnerLeaf.z2,
              RecessOuterLeaf.z1, RecessOuterLeaf.z2)
    /\ \A o \in SeqRange(OpsNamed(base, "clear_hole")) :
          Covers(LeafOf(o).z1, LeafOf(o).z2, FloorLeaf.z1, FloorLeaf.z2)
    \* front archway through the tray's front wall, from the outer face inwards
    /\ Covers(UsbOpeningLeaf.x1, UsbOpeningLeaf.x2, RecessOuterLeaf.x1, RecessInnerLeaf.x1)

\* the front archway passes through the rim's front wall
ArchwayThroughRim ==
    Covers(UsbOpeningLeaf.x1, UsbOpeningLeaf.x2, LipOuterLeaf.x1, LipInnerLeaf.x1)

ShellCutsPenetrate ==
    /\ CavityLeaf.z1 <= BlockLeaf.z1
    /\ \A o \in SeqRange(OpsNamed(shell, "pilot")) :
          Covers(LeafOf(o).z1, LeafOf(o).z2, CavityLeaf.z1, CavityLeaf.z2)
    /\ LET cut == LeafOf(OpNamed(shell, "usb_cutout"))
       IN Covers(cut.x1, cut.x2, BlockLeaf.x1, CavityLeaf.x1)
    /\ LET arch == LeafOf(OpNamed(shell, "clamp_arch"))
       IN Covers(arch.x1, arch.x2, CavityLeaf.x2, BlockLeaf.x2)

\* C5: in the finished base and the finished shell every cut covers, along
\* its through direction, the whole extent of the feature it cuts: lip
\* cutout and corner reliefs the lip height, clamp slot the rim wall, screw
\* holes the floor, the base's front archway the rim and the tray wall, the
\* shell's cavity, connector opening and wire-clamp arch the walls.
C5_EveryCutPenetrates ==
    /\ Past("usb_opening") => (BaseCutsPenetrate /\ ArchwayThroughRim)
    /\ Past("clamp_arch") => ShellCutsPenetrate

\* every cut but the front archway's pass through the rim does penetrate
C5_AllButArchwayRim ==
    /\ Past("usb_opening") => BaseCutsPenetrate
    /\ Past("clamp_arch") => ShellCutsPenetrate

\* a point of the rim's front wall, inside the archway's width and height,
\* that the finished base still contains
ArchwayResidue ==
    <<LipInnerLeaf.x1 - ProbeInset, 0, UsbOpeningLeaf.z1 + ProbeInset>>

C5_NoResidueInArchway ==
    Past("usb_opening") => ~PointIn(base, ArchwayResidue)

(***************************************************************************)
(* C10                                                                     *)
(***************************************************************************)
\* the shell seated on the base: its Z=0 at the top of the floor
SeatedShell == Moved(shell, floor_thick)

\* probe points of the base's additive features above the floor that lie in
\* the finished base and in the seated shell
Interference ==
    { p \in Occupied(base) :
        p[3] > floor_thick /\ PointIn(SeatedShell, p) }

\* C10: with both solids finished and the shell seated on the base, no
\* additive feature of the base above the floor (lip, tray, standoffs,
\* anvils) shares a point with solid shell material; the tray's outer
\* footprint lies inside the cavity footprint or the wall openings.
C10_NoInterference ==
    Past("clamp_arch") =>
        /\ Interference = {}
        /\ \/ /\ LenX(RecessOuterLeaf) <= cavity_l
              /\ LenY(RecessOuterLeaf) <= cavity_w
           \/ /\ LenY(RecessOuterLeaf) <= usb_cut_w
              /\ LenY(RecessOuterLeaf) <= slot_w

\* with the tray left out of the probes, nothing else interferes
C10_OnlyTheTrayInterferes ==
    Past("clamp_arch") =>
        \A p \in Interference : PointInPart(OpNamed(base, "recess"), p)

(***************************************************************************)
(* C6                                                                      *)
(***************************************************************************)
AllFilesComplete == \A n \in FileNames : Complete(files[n])

\* C6: past the import guard VISUALIZE tells whether the viewer could be
\* imported, and the notice is printed exactly when it could not.  Without
\* the viewer show() is never called; with it show() is called at most
\* once, with both solids finished, and it has been called by the time the
\* first file is written.  A run that reaches the end has written all four
\* files and printed "Done.", with or without the viewer.
C6_ViewerGuard ==
    /\ Len(shown) <= 1
    /\ Past("import_viewer") =>
          /\ VISUALIZE = viewer
          /\ Printed(NoticeLine) <=> ~viewer
          /\ ~VISUALIZE => shown = <<>>
    /\ shown # <<>> =>
          /\ VISUALIZE
          /\ HasOp(base, "usb_opening")
          /\ HasOp(shell, "clamp_arch")
          /\ shown[1].base_part = base
    /\ (written # <<>> /\ VISUALIZE) => Len(shown) = 1
    /\ (Past("visualize") /\ VISUALIZE) => Len(shown) = 1
    /\ pc = "done" =>
          /\ AllFilesComplete
          /\ written = ExportOrder
          /\ console[Len(console)] = "Done."
          /\ HasOp(base, "usb_opening")
          /\ HasOp(shell, "clamp_arch")

\* a run without the viewer that finished: notice printed, no preview, four files
C6_Witness ==
    /\ pc = "done"
    /\ ~viewer
    /\ ~VISUALIZE
    /\ console = <<NoticeLine, "Exporting files...", "Done.">>
    /\ shown = <<>>
    /\ AllFilesComplete

(***************************************************************************)
(* C7                                                                      *)
(***************************************************************************)
\* the base and the shell as their builders leave them
FinishedBase ==
    BasePlateOps \o AlignmentLipOps \o PcbRetentionRecessOps \o PcbStandoffsOps
    \o ScrewHolesOps \o WireClampAnvilOps \o UsbAnvilOps \o UsbOpeningOps

FinishedShell ==
    MainBlockOps(internal_h) \o HollowCavityOps(internal_h)
    \o ScrewPostsOps(internal_h) \o HoldDownsOps(internal_h)
    \o UsbCutoutOps \o WireClampArchOps

ExpectedFile ==
    [ n \in FileNames |->
        CASE n = "decoy_base.stl" -> [format |-> "stl", mesh |-> FinishedBase]
          [] n = "decoy_shell.stl" -> [format |-> "stl", mesh |-> FinishedShell]
          [] n = "decoy_base.glb" -> [format |-> "glb", mesh |-> FinishedBase]
          [] n = "decoy_shell.glb" -> [format |-> "glb", mesh |-> FinishedShell] ]

GhostNames == {"pcb", "usb", "term"}

NoGhostIn(solid) ==
    /\ \A i \in 1..Len(solid) : solid[i].name \notin GhostNames
    /\ \A g \in SeqRange(ghosts) : g \notin SeqRange(solid)

C8_FailureAborts ==
    [][ /\ pc = "aborted" => UNCHANGED vars
        /\ pc' = "aborted" =>
              /\ console' = console
              /\ written' = written
              /\ base' = base
              /\ shell' = shell
              /\ shown' = shown
              /\ \A i \in 1..Len(written) : files'[written[i]] = files[written[i]]
              /\ ~Printed("Done.")
        /\ (run' = run /\ written' # written) =>
              /\ Printed("Exporting files...")
              /\ IsPrefix(written', ExportOrder)
              /\ Len(written') = Len(written) + 1
        /\ (run' = run /\ console' # console /\ console'[Len(console')] = "Done.") =>
              /\ written = ExportOrder
              /\ AllFilesComplete
      ]_vars

\* aborted while writing the third file: two files in place, the third truncated
C8_Witness ==
    /\ pc = "aborted"
    /\ written = <<"decoy_base.stl", "decoy_shell.stl">>
    /\ files["decoy_base.stl"] = ExpectedFile["decoy_base.stl"]
    /\ files["decoy_base.glb"] = Partial
    /\ Printed("Exporting files...")
    /\ ~Printed("Done.")

====
